---- MODULE Spec2Model ----
(***************************************************************************)
(* A model of the huffnpuff codec (src/src/huffman.rs): the Huffman tree   *)
(* builder, its serializer and deserializer, the bitstream encoder and     *)
(* decoder, and the encode/decode facade.                                  *)
(*                                                                         *)
(* Bits are 0/1, bit sequences are Lsb0 views of u8 storage.  A panic of   *)
(* the Rust code is an explicit outcome (kind "Panic"), never an           *)
(* evaluation error, so that "no panic" is a checkable statement.          *)
(***************************************************************************)
EXTENDS Integers, Sequences, FiniteSets, TLC

VARIABLES
    bytes,   \* the caller's byte buffer (argument of encode, or of a raw decode)
    wire,    \* a crafted bit string handed to decode (foreign / malformed data)
    stage,   \* how far the crafted bit string has been written
    out,     \* the result of encode(bytes)
    buf,     \* the byte buffer decode was called with
    res,     \* the result of decode(buf)
    pc       \* "input" -> "encoded" -> "decoded"

vars == <<bytes, wire, stage, out, buf, res, pc>>

(***************************************************************************)
(* Bounds of the model.                                                    *)
(***************************************************************************)
MaxLen == 5        \* longest message handed to encode
MaxStruct == 5     \* longest crafted structural prefix, in bits
MaxGroups == 3     \* most 9-bit leaf groups in a crafted header
MaxPayload == 4    \* most crafted payload bits after the groups

\* The byte values messages are drawn from: 0, 'a', 'c', 255.
SampleBytes == {0, 97, 99, 255}
\* The symbol values crafted leaf groups carry: 'a', 'c'.
SampleSyms == {97, 99}

Byte == 0..255
Bit == {0, 1}

Range(s) == {s[i] : i \in DOMAIN s}

(***************************************************************************)
(* HuffmanValue and Node                                                   *)
(***************************************************************************)
Symbol(s) == [tag |-> "Symbol", sym |-> s]
EndOfMessage == [tag |-> "EndOfMessage", sym |-> 0]

Leaf(c, v) == [kind |-> "Leaf", count |-> c, value |-> v]
Inner(c, l, r) == [kind |-> "Inner", count |-> c, left |-> l, right |-> r]

\* No tree was built or parsed.
NoTree == [kind |-> "None"]
\* The tree constructor's assert!(!bytes.is_empty()) fired.
PanicTree == [kind |-> "Panic"]

\* Node::join.  The counts of the model stay far below 2^32, the width of
\* count.
Join(l, r) == Inner(l.count + r.count, l, r)

(***************************************************************************)
(* bitvec conversions                                                      *)
(***************************************************************************)
\* A faulty variant of ByteBits: most significant bit first.
ByteBitsMsb(b) == [i \in 1..8 |-> (b \div (2 ^ (8 - i))) % 2]

\* s.view_bits::<Lsb0>() of one u8: least significant bit first.
ByteBits(b) == [i \in 1..8 |-> (b \div (2 ^ (i - 1))) % 2]

RECURSIVE LoadFrom(_, _, _)
LoadFrom(bits, from, k) ==
    IF k = 0 THEN 0
    ELSE bits[from] + 2 * LoadFrom(bits, from + 1, k - 1)

RECURSIVE LoadFromMsb(_, _, _)
LoadFromMsb(bits, from, k) ==
    IF k = 0 THEN 0
    ELSE bits[from] * (2 ^ (k - 1)) + LoadFromMsb(bits, from + 1, k - 1)

\* A faulty variant of Load: the first bit is the most significant.
LoadMsb(bits, from, k) == LoadFromMsb(bits, from, k)

\* value_bits.load() of the k bits starting at index `from`: on a
\* little-endian target load is load_le, and with Lsb0 order the first bit
\* is the least significant.
Load(bits, from, k) == LoadFrom(bits, from, k)

\* bytes.view_bits::<Lsb0>()
ViewBits(bs) ==
    [i \in 1..(8 * Len(bs)) |-> (bs[((i - 1) \div 8) + 1] \div (2 ^ ((i - 1) % 8))) % 2]

\* The bit at index i of a bit vector whose dead bits of the last storage
\* element are all `fill`.
BitOrFill(bits, i, fill) == IF i <= Len(bits) THEN bits[i] ELSE fill

\* bits.set_uninitialized(fill); bits.into_vec()
IntoVecFill(bits, fill) ==
    [k \in 1..((Len(bits) + 7) \div 8) |->
        BitOrFill(bits, 8 * (k - 1) + 1, fill)
        + 2 * BitOrFill(bits, 8 * (k - 1) + 2, fill)
        + 4 * BitOrFill(bits, 8 * (k - 1) + 3, fill)
        + 8 * BitOrFill(bits, 8 * (k - 1) + 4, fill)
        + 16 * BitOrFill(bits, 8 * (k - 1) + 5, fill)
        + 32 * BitOrFill(bits, 8 * (k - 1) + 6, fill)
        + 64 * BitOrFill(bits, 8 * (k - 1) + 7, fill)
        + 128 * BitOrFill(bits, 8 * (k - 1) + 8, fill)]

(***************************************************************************)
(* Tree Builder: Node::tree_for_message                                    *)
(***************************************************************************)
\* The frequency table: how often each distinct byte occurs.
Frequencies(bs) ==
    [b \in Range(bs) |-> Cardinality({i \in DOMAIN bs : bs[i] = b})]

\* The orders in which the frequency table (a HashMap) may yield its keys.
Orders(S) ==
    {o \in [1..Cardinality(S) -> S] : \A i, j \in DOMAIN o : i # j => o[i] # o[j]}

\* nodes.sort_by_key(|node| node.count()): a stable sort, by insertion.
RECURSIVE InsertByKey(_, _)
InsertByKey(sorted, x) ==
    IF Len(sorted) = 0 THEN <<x>>
    ELSE IF Head(sorted).count <= x.count
         THEN <<Head(sorted)>> \o InsertByKey(Tail(sorted), x)
         ELSE <<x>> \o sorted

RECURSIVE SortFrom(_, _, _)
SortFrom(nodes, i, acc) ==
    IF i > Len(nodes) THEN acc
    ELSE SortFrom(nodes, i + 1, InsertByKey(acc, nodes[i]))

\* A faulty variant of SortByKey: the sort left out.
SortByKeyNone(nodes) == nodes

SortByKey(nodes) == SortFrom(nodes, 1, <<>>)

\* while nodes.len() > 1 { sort; remove(0); remove(0); push(join) }; pop
RECURSIVE MergeLoop(_)
MergeLoop(nodes) ==
    IF Len(nodes) > 1
    THEN LET s == SortByKey(nodes)
         IN  MergeLoop(SubSeq(s, 3, Len(s)) \o <<Join(s[1], s[2])>>)
    ELSE nodes[Len(nodes)]

\* One leaf per distinct byte in the table's iteration order, then the EOM leaf.
InitialNodes(bs, order) ==
    LET f == Frequencies(bs)
    IN  [i \in 1..Len(order) |-> Leaf(f[order[i]], Symbol(order[i]))]
        \o <<Leaf(0, EndOfMessage)>>

TreeForMessage(bs, order) ==
    IF Len(bs) = 0 THEN PanicTree
    ELSE MergeLoop(InitialNodes(bs, order))

(***************************************************************************)
(* Tree Serializer: Node::serialize                                        *)
(***************************************************************************)
\* The structural bits: preorder, 1 for a leaf, 0 for an inner node.
RECURSIVE StructBits(_)
StructBits(n) ==
    IF n.kind = "Leaf" THEN <<1>>
    ELSE <<0>> \o StructBits(n.left) \o StructBits(n.right)

\* The leaf values in the same preorder.
RECURSIVE LeafValues(_)
LeafValues(n) ==
    IF n.kind = "Leaf" THEN <<n.value>>
    ELSE LeafValues(n.left) \o LeafValues(n.right)

\* The 9-bit extended representation of one value.
ValueBits(v) ==
    IF v.tag = "EndOfMessage" THEN <<1>> \o ByteBits(0)
    ELSE <<0>> \o ByteBits(v.sym)

RECURSIVE AllValueBits(_, _)
AllValueBits(values, i) ==
    IF i > Len(values) THEN <<>>
    ELSE ValueBits(values[i]) \o AllValueBits(values, i + 1)

Serialize(tree) == StructBits(tree) \o AllValueBits(LeafValues(tree), 1)

(***************************************************************************)
(* Codebook & Encoder: Node::encode                                        *)
(***************************************************************************)
\* The codebook entries in insertion order (depth-first, left before right).
RECURSIVE CodebookEntries(_, _)
CodebookEntries(n, path) ==
    IF n.kind = "Leaf" THEN <<[value |-> n.value, path |-> path]>>
    ELSE CodebookEntries(n.left, path \o <<0>>)
         \o CodebookEntries(n.right, path \o <<1>>)

\* The indices of the entries for value v; a later insert replaces an
\* earlier one, so the last index is the one the map holds.
EntriesFor(entries, v) == {i \in DOMAIN entries : entries[i].value = v}
HasCode(entries, v) == EntriesFor(entries, v) # {}
CodeOf(entries, v) ==
    entries[CHOOSE i \in EntriesFor(entries, v) :
                \A j \in EntriesFor(entries, v) : j <= i].path

RECURSIVE MessageBits(_, _, _)
MessageBits(entries, bs, i) ==
    IF i > Len(bs) THEN <<>>
    ELSE CodeOf(entries, Symbol(bs[i])) \o MessageBits(entries, bs, i + 1)

\* [panic, bits]: the codewords of the bytes, then the EOM codeword.
NodeEncode(tree, bs) ==
    LET entries == CodebookEntries(tree, <<>>)
    IN  IF \/ \E i \in DOMAIN bs : ~HasCode(entries, Symbol(bs[i]))
           \/ ~HasCode(entries, EndOfMessage)
        THEN [panic |-> TRUE, bits |-> <<>>]
        ELSE [panic |-> FALSE,
              bits |-> MessageBits(entries, bs, 1) \o CodeOf(entries, EndOfMessage)]

(***************************************************************************)
(* Facade: encode                                                          *)
(***************************************************************************)
\* The result carries, beside the Result<Vec<u8>, Error> itself (kind, val),
\* the tree that was built and the number of bits before packing.
EncodePanic == [kind |-> "Panic", val |-> <<>>, tree |-> NoTree, nbits |-> 0]

EncodeUnchecked(bs, order) ==
    LET tree == TreeForMessage(bs, order)
    IN  IF tree.kind = "Panic" THEN EncodePanic
        ELSE LET message == NodeEncode(tree, bs)
                 bits == Serialize(tree) \o message.bits
             IN  IF message.panic THEN EncodePanic
                 ELSE [kind |-> "Ok", val |-> IntoVecFill(bits, 0),
                       tree |-> tree, nbits |-> Len(bits)]

Encode(bs, order) ==
    IF Len(bs) = 0
    THEN [kind |-> "NoData", val |-> <<>>, tree |-> NoTree, nbits |-> 0]
    ELSE EncodeUnchecked(bs, order)

(***************************************************************************)
(* Tree Deserializer: Node::deserialize                                    *)
(***************************************************************************)
SYMBOL_SIZE == 9

\* helper: parse the structural prefix from index pos on.  `leaves` is the
\* running leaf_count.  ok = FALSE is the None of a failed split_first()?.
RECURSIVE Helper(_, _, _)
Helper(bits, pos, lc) ==
    IF pos > Len(bits)
    THEN [ok |-> FALSE, node |-> NoTree, pos |-> pos, leaves |-> lc]
    ELSE IF bits[pos] = 1
    THEN [ok |-> TRUE, node |-> Leaf(0, Symbol(0)), pos |-> pos + 1, leaves |-> lc + 1]
    ELSE LET l == Helper(bits, pos + 1, lc)
         IN  IF ~l.ok THEN l
             ELSE LET r == Helper(bits, l.pos, l.leaves)
                  IN  IF ~r.ok THEN r
                      ELSE [ok |-> TRUE, node |-> Inner(0, l.node, r.node),
                            pos |-> r.pos, leaves |-> r.leaves]

\* The value one 9-bit group starting at pos holds.
GroupValue(bits, pos) ==
    IF bits[pos] = 1 THEN EndOfMessage
    ELSE Symbol(Load(bits, pos + 1, SYMBOL_SIZE - 1))

\* traverse: fill the leaves' values from the 9-bit groups, in preorder.
\* panic = TRUE is split_at(9) called on fewer than 9 bits.
RECURSIVE Traverse(_, _, _, _)
Traverse(bits, pos, seen, n) ==
    IF n.kind = "Leaf"
    THEN IF Len(bits) - (pos - 1) < SYMBOL_SIZE
         THEN [panic |-> TRUE, node |-> n, pos |-> pos, seen |-> seen]
         ELSE [panic |-> FALSE,
               node |-> Leaf(n.count, GroupValue(bits, pos)),
               pos |-> pos + SYMBOL_SIZE,
               seen |-> (seen \/ bits[pos] = 1)]
    ELSE LET l == Traverse(bits, pos, seen, n.left)
         IN  IF l.panic THEN l
             ELSE LET r == Traverse(bits, l.pos, l.seen, n.right)
                  IN  IF r.panic THEN r
                      ELSE [panic |-> FALSE, node |-> Inner(n.count, l.node, r.node),
                            pos |-> r.pos, seen |-> r.seen]

DeserializeNone ==
    [kind |-> "None", tree |-> NoTree, pos |-> 1, leaves |-> 0]

DeserializePanic ==
    [kind |-> "Panic", tree |-> NoTree, pos |-> 1, leaves |-> 0]

\* A faulty variant of DeserializeValues: seen_eom is not checked.
DeserializeValuesNoEomCheck(bits, h) ==
    LET t == Traverse(bits, h.pos, FALSE, h.node)
    IN  IF t.panic THEN DeserializePanic
        ELSE IF t.node.kind = "Leaf" THEN DeserializeNone
        ELSE [kind |-> "Some", tree |-> t.node, pos |-> t.pos, leaves |-> h.leaves]

\* The part of deserialize after the structural prefix h was parsed and
\* the length was checked.
DeserializeValues(bits, h) ==
    LET t == Traverse(bits, h.pos, FALSE, h.node)
    IN  IF t.panic THEN DeserializePanic
        ELSE IF ~t.seen THEN DeserializeNone
        ELSE IF t.node.kind = "Leaf" THEN DeserializeNone
        ELSE [kind |-> "Some", tree |-> t.node, pos |-> t.pos, leaves |-> h.leaves]

\* A faulty variant of Deserialize: the length of the leaf-value block is
\* not checked.
DeserializeNoLengthCheck(bits) ==
    LET h == Helper(bits, 1, 0)
    IN  IF ~h.ok THEN DeserializeNone
        ELSE DeserializeValues(bits, h)

\* "Some": the tree, the index of the first unconsumed bit and leaf_count.
Deserialize(bits) ==
    LET h == Helper(bits, 1, 0)
    IN  IF ~h.ok THEN DeserializeNone
        ELSE IF h.leaves * SYMBOL_SIZE > Len(bits) - (h.pos - 1) THEN DeserializeNone
        ELSE DeserializeValues(bits, h)

(***************************************************************************)
(* Bitstream Decoder: Node::decode                                         *)
(***************************************************************************)
\* The for loop over the bits from index i on.  `next` is the index of the
\* first bit the loop did not read; stop tells how the loop ended.
RECURSIVE DecodeLoop(_, _, _, _, _)
DecodeLoop(root, bits, i, cursor, ret) ==
    IF i > Len(bits)
    THEN [panic |-> FALSE, ret |-> ret, stop |-> "exhausted", next |-> i]
    ELSE IF cursor.kind = "Leaf"
    THEN [panic |-> TRUE, ret |-> ret, stop |-> "panic", next |-> i]
    ELSE LET c == IF bits[i] = 0 THEN cursor.left ELSE cursor.right
         IN  IF c.kind = "Leaf"
             THEN IF c.value.tag = "EndOfMessage"
                  THEN [panic |-> FALSE, ret |-> ret, stop |-> "eom", next |-> i + 1]
                  ELSE DecodeLoop(root, bits, i + 1, root, Append(ret, c.value.sym))
             ELSE DecodeLoop(root, bits, i + 1, c, ret)

\* A faulty variant of the loop: the EOM arm resets the cursor instead of
\* returning.
RECURSIVE DecodeLoopPastEom(_, _, _, _, _)
DecodeLoopPastEom(root, bits, i, cursor, ret) ==
    IF i > Len(bits)
    THEN [panic |-> FALSE, ret |-> ret, stop |-> "exhausted", next |-> i]
    ELSE IF cursor.kind = "Leaf"
    THEN [panic |-> TRUE, ret |-> ret, stop |-> "panic", next |-> i]
    ELSE LET c == IF bits[i] = 0 THEN cursor.left ELSE cursor.right
         IN  IF c.kind = "Leaf"
             THEN IF c.value.tag = "EndOfMessage"
                  THEN DecodeLoopPastEom(root, bits, i + 1, root, ret)
                  ELSE DecodeLoopPastEom(root, bits, i + 1, root, Append(ret, c.value.sym))
             ELSE DecodeLoopPastEom(root, bits, i + 1, c, ret)

\* A faulty variant of the loop: nothing is returned when the bits run out.
DecodeLoopStrict(root, bits, i) ==
    LET d == DecodeLoop(root, bits, i, root, <<>>)
    IN  IF d.stop = "exhausted" THEN [d EXCEPT !.ret = <<>>] ELSE d

NodeDecodePastEom(tree, bits, from) ==
    IF tree.kind # "Inner"
    THEN [panic |-> TRUE, ret |-> <<>>, stop |-> "panic", next |-> from]
    ELSE DecodeLoopPastEom(tree, bits, from, tree, <<>>)

NodeDecodeStrict(tree, bits, from) ==
    IF tree.kind # "Inner"
    THEN [panic |-> TRUE, ret |-> <<>>, stop |-> "panic", next |-> from]
    ELSE DecodeLoopStrict(tree, bits, from)

\* Node::decode on the bits from index `from` on.
NodeDecode(tree, bits, from) ==
    IF tree.kind # "Inner"
    THEN [panic |-> TRUE, ret |-> <<>>, stop |-> "panic", next |-> from]
    ELSE DecodeLoop(tree, bits, from, tree, <<>>)

(***************************************************************************)
(* Facade: decode                                                          *)
(***************************************************************************)
\* The result carries, beside the Result<Vec<u8>, Error> itself (kind, val),
\* the tree that was parsed, its leaf_count, the number of header bits, the
\* number of payload bits the decoder read and how its loop ended.
DecodeFail(k) ==
    [kind |-> k, val |-> <<>>, tree |-> NoTree, leaves |-> 0, hdr |-> 0,
     used |-> 0, stop |-> "none"]

DecodeUnchecked(bs) ==
    LET bits == ViewBits(bs)
        d == Deserialize(bits)
    IN  IF d.kind = "None" THEN DecodeFail("FailedToDecodeHuffmanTree")
        ELSE IF d.kind = "Panic" THEN DecodeFail("Panic")
        ELSE LET m == NodeDecode(d.tree, bits, d.pos)
             IN  IF m.panic THEN DecodeFail("Panic")
                 ELSE [kind |-> "Ok", val |-> m.ret, tree |-> d.tree,
                       leaves |-> d.leaves, hdr |-> d.pos - 1,
                       used |-> m.next - d.pos, stop |-> m.stop]

\* A faulty variant of Decode: the empty check left out.
DecodeNoEmptyCheck(bs) == DecodeUnchecked(bs)

Decode(bs) ==
    IF Len(bs) = 0 THEN DecodeFail("NoData")
    ELSE DecodeUnchecked(bs)

(***************************************************************************)
(* The callers                                                             *)
(***************************************************************************)
NoResult == [kind |-> "None"]

\* "Hello, world!": data the codec did not produce (tests::test_invalid).
HelloWorld == <<72, 101, 108, 108, 111, 44, 32, 119, 111, 114, 108, 100, 33>>

\* One more leaf than there are values a leaf can hold (256 bytes and EOM).
MaxLeaves == Cardinality(Byte) + 1

\* The structural bits of the perfect tree of 2^k leaves.
RECURSIVE PerfectStruct(_)
PerfectStruct(k) ==
    IF k = 0 THEN <<1>> ELSE <<0>> \o PerfectStruct(k - 1) \o PerfectStruct(k - 1)

\* A header of MaxLeaves + 1 leaves: a root whose left subtree is the
\* perfect tree of 256 leaves and whose right subtree has two leaves, then
\* one leaf group flagged EOM and MaxLeaves groups Symbol(0).
WideHeader ==
    <<0>> \o PerfectStruct(8) \o <<0, 1, 1>>
    \o [i \in 1..(SYMBOL_SIZE * (MaxLeaves + 1)) |-> IF i = 1 THEN 1 ELSE 0]

\* Whether bits is exactly one tree in preorder (1 = leaf, 0 = inner).
Ones(bits, k) == Cardinality({i \in 1..k : bits[i] = 1})
CompletePreorder(bits) ==
    /\ Len(bits) > 0
    /\ 2 * Ones(bits, Len(bits)) = Len(bits) + 1
    /\ \A k \in 1..(Len(bits) - 1) : 2 * Ones(bits, k) <= k

\* The leaf groups a crafted header is written from: EOM, 'a', 'c'.
GroupOptions == {EndOfMessage} \cup {Symbol(s) : s \in SampleSyms}

Init ==
    /\ bytes = <<>>
    /\ wire = <<>>
    /\ stage = [phase |-> "struct", groups |-> 0, payload |-> 0]
    /\ out = NoResult
    /\ buf = <<>>
    /\ res = NoResult
    /\ pc = "input"

\* The caller extends the message by one byte.
AppendByte ==
    /\ pc = "input"
    /\ Len(bytes) < MaxLen
    /\ \E b \in SampleBytes : bytes' = Append(bytes, b)
    /\ UNCHANGED <<wire, stage, out, buf, res, pc>>

\* encode(bytes); the frequency table yields its keys in some order.
EncodeCall ==
    /\ pc = "input"
    /\ \E order \in Orders(Range(bytes)) :
          out' = Encode(bytes, order) @@ [order |-> order]
    /\ pc' = "encoded"
    /\ UNCHANGED <<bytes, wire, stage, buf, res>>

\* decode(encode(bytes))
DecodeEncoded ==
    /\ pc = "encoded"
    /\ out.kind = "Ok"
    /\ buf' = out.val
    /\ res' = Decode(out.val)
    /\ pc' = "decoded"
    /\ UNCHANGED <<bytes, wire, stage, out>>

\* decode(bytes): the caller's raw buffer, never encoded (tests::test_empty,
\* tests::test_invalid), also after an encode that gave no output.
DecodeRaw ==
    /\ \/ pc = "input"
       \/ pc = "encoded" /\ out.kind # "Ok"
    /\ buf' = bytes
    /\ res' = Decode(bytes)
    /\ pc' = "decoded"
    /\ UNCHANGED <<bytes, wire, stage, out>>

Next ==
    \/ AppendByte
    \/ EncodeCall
    \/ DecodeEncoded
    \/ DecodeRaw

Spec == Init /\ [][Next]_vars

(***************************************************************************)
(* Crafted input: a bit string written part by part, then decoded.         *)
(***************************************************************************)
AppendStructBit ==
    /\ pc = "input"
    /\ stage.phase = "struct"
    /\ Len(wire) < MaxStruct
    /\ \E b \in Bit : wire' = Append(wire, b)
    /\ UNCHANGED <<bytes, stage, out, buf, res, pc>>

AppendGroup ==
    /\ pc = "input"
    /\ \/ stage.phase = "struct" /\ CompletePreorder(wire)
       \/ stage.phase = "groups"
    /\ stage.groups < MaxGroups
    /\ \E v \in GroupOptions : wire' = wire \o ValueBits(v)
    /\ stage' = [stage EXCEPT !.phase = "groups", !.groups = @ + 1]
    /\ UNCHANGED <<bytes, out, buf, res, pc>>

AppendPayloadBit ==
    /\ pc = "input"
    /\ stage.phase \in {"groups", "payload"}
    /\ stage.payload < MaxPayload
    /\ \E b \in Bit : wire' = Append(wire, b)
    /\ stage' = [stage EXCEPT !.phase = "payload", !.payload = @ + 1]
    /\ UNCHANGED <<bytes, out, buf, res, pc>>

FeedForeign ==
    /\ pc = "input"
    /\ wire = <<>>
    /\ wire' = ViewBits(HelloWorld)
    /\ stage' = [stage EXCEPT !.phase = "fixed"]
    /\ UNCHANGED <<bytes, out, buf, res, pc>>

FeedWide ==
    /\ pc = "input"
    /\ wire = <<>>
    /\ wire' = WideHeader
    /\ stage' = [stage EXCEPT !.phase = "fixed"]
    /\ UNCHANGED <<bytes, out, buf, res, pc>>

\* decode of the crafted bits; the bits that fill the last byte are all
\* zero or all one.
DecodeCrafted ==
    /\ pc = "input"
    /\ \E fill \in Bit :
          /\ buf' = IntoVecFill(wire, fill)
          /\ res' = Decode(IntoVecFill(wire, fill))
    /\ pc' = "decoded"
    /\ UNCHANGED <<bytes, wire, stage, out>>

NextCrafted ==
    \/ AppendStructBit
    \/ AppendGroup
    \/ AppendPayloadBit
    \/ FeedForeign
    \/ DecodeCrafted

SpecCrafted == Init /\ [][NextCrafted]_vars

\* The crafted inputs and the wide header.
NextWide ==
    \/ AppendStructBit
    \/ AppendGroup
    \/ AppendPayloadBit
    \/ FeedForeign
    \/ FeedWide
    \/ DecodeCrafted

SpecWide == Init /\ [][NextWide]_vars

(***************************************************************************)
(* The wire format and the code, stated without the codec's own parsers.   *)
(***************************************************************************)
\* The index at which the preorder structure starting at bit 1 is complete,
\* by counting the subtrees still owed (0: the bits run out first).
RECURSIVE ScanStruct(_, _, _)
ScanStruct(bits, i, owed) ==
    IF owed = 0 THEN i - 1
    ELSE IF i > Len(bits) THEN 0
    ELSE ScanStruct(bits, i + 1, IF bits[i] = 1 THEN owed - 1 ELSE owed + 1)

StructEnd(bits) == ScanStruct(bits, 1, 1)

\* The flag bit and the value of the i-th 9-bit group after k structural bits.
GroupFlag(bits, k, i) == bits[k + 9 * (i - 1) + 1]
GroupByte(bits, k, i) ==
    LET b == k + 9 * (i - 1) + 1
    IN  bits[b + 1] + 2 * bits[b + 2] + 4 * bits[b + 3] + 8 * bits[b + 4]
        + 16 * bits[b + 5] + 32 * bits[b + 6] + 64 * bits[b + 7] + 128 * bits[b + 8]

\* The groups flagged EOM among the first n.
FlaggedGroups(bits, k, n) == {i \in 1..n : GroupFlag(bits, k, i) = 1}

\* The header is one of the four invalid kinds: the structure runs out of
\* bits, too few bits for the groups, no group flagged EOM, a bare leaf.
HeaderInvalid(bits) ==
    LET k == StructEnd(bits)
        n == Ones(bits, k)
    IN  \/ k = 0
        \/ 9 * n > Len(bits) - k
        \/ FlaggedGroups(bits, k, n) = {}
        \/ bits[1] = 1

\* The message read off codeword by codeword: at index i the one codeword
\* of the tree that the bits continue with, until EOM or until none fits.
CodewordsAt(entries, bits, i) ==
    {e \in DOMAIN entries :
        /\ i + Len(entries[e].path) - 1 <= Len(bits)
        /\ \A j \in 1..Len(entries[e].path) : bits[i + j - 1] = entries[e].path[j]}

RECURSIVE ParseCodewords(_, _, _, _)
ParseCodewords(entries, bits, i, acc) ==
    LET fit == CodewordsAt(entries, bits, i)
    IN  IF fit = {} THEN [ret |-> acc, stop |-> "exhausted", next |-> i]
        ELSE LET e == entries[CHOOSE m \in fit : TRUE]
             IN  IF e.value.tag = "EndOfMessage"
                 THEN [ret |-> acc, stop |-> "eom", next |-> i + Len(e.path)]
                 ELSE ParseCodewords(entries, bits, i + Len(e.path),
                                     Append(acc, e.value.sym))

\* The payload of the decoded buffer, parsed with the codewords of the tree
\* decode rebuilt.
PayloadParse ==
    ParseCodewords(CodebookEntries(res.tree, <<>>), ViewBits(buf), res.hdr + 1, <<>>)

RECURSIVE LeafCount(_)
LeafCount(n) ==
    IF n.kind = "Leaf" THEN 1 ELSE LeafCount(n.left) + LeafCount(n.right)

RECURSIVE EomLeaves(_)
EomLeaves(n) ==
    IF n.kind = "Leaf" THEN (IF n.value.tag = "EndOfMessage" THEN 1 ELSE 0)
    ELSE EomLeaves(n.left) + EomLeaves(n.right)

RECURSIVE SumCodeLengths(_, _, _)
SumCodeLengths(entries, bs, i) ==
    IF i > Len(bs) THEN 0
    ELSE Len(CodeOf(entries, Symbol(bs[i]))) + SumCodeLengths(entries, bs, i + 1)

\* The codeword lengths of the bytes of bs, plus that of EOM.
TotalCodeLength(tree, bs) ==
    LET entries == CodebookEntries(tree, <<>>)
    IN  SumCodeLengths(entries, bs, 1) + Len(CodeOf(entries, EndOfMessage))

\* The keys of the frequency table in ascending order.
AscendingOrder(S) == CHOOSE o \in Orders(S) : \A i, j \in DOMAIN o : i < j => o[i] < o[j]

\* Bit strings that fill a buffer of n bits up to a byte boundary, and one
\* byte beyond it: all zero, all one, alternating.
Tails(n) ==
    LET pad == (8 - (n % 8)) % 8
    IN  UNION {{[i \in 1..m |-> 0], [i \in 1..m |-> 1],
                [i \in 1..m |-> i % 2], [i \in 1..m |-> (i + 1) % 2]} :
               m \in {pad, pad + 8}}

Encoded == pc # "input" /\ out.kind # "None"
EncodeReturned == pc = "encoded"
Decoded == pc = "decoded"
DecodedEncoded == pc = "decoded" /\ out.kind = "Ok" /\ buf = out.val

(***************************************************************************)
(* C1  Round trip: for every non-empty byte buffer, under every iteration  *)
(* order of the frequency table, encode returns Ok and decode of its       *)
(* output returns Ok with exactly the bytes of the buffer, in order.       *)
(***************************************************************************)
RoundTrip ==
    /\ (Encoded /\ Len(bytes) > 0) => out.kind = "Ok"
    /\ DecodedEncoded => (res.kind = "Ok" /\ res.val = bytes)

\* A message of one distinct byte value, three or more times, round-tripped.
RoundTripWitness ==
    /\ DecodedEncoded
    /\ Cardinality(Range(bytes)) = 1
    /\ Len(bytes) >= 3
    /\ res.val = bytes

PaddingSafety ==
    (Decoded /\ res.kind = "Ok" /\ PayloadParse.stop = "eom") =>
        /\ res.val = PayloadParse.ret
        /\ \A t \in Tails(PayloadParse.next - 1) :
              LET alt == Decode(IntoVecFill(
                            SubSeq(ViewBits(buf), 1, PayloadParse.next - 1) \o t, 0))
              IN  alt.kind = "Ok" /\ alt.val = res.val

\* EOM reached with one bits after it that would spell a further symbol.
PaddingSafetyWitness ==
    /\ Decoded
    /\ res.kind = "Ok"
    /\ PayloadParse.stop = "eom"
    /\ Len(res.val) >= 1
    /\ PayloadParse.next <= Len(ViewBits(buf))
    /\ \A i \in PayloadParse.next..Len(ViewBits(buf)) : ViewBits(buf)[i] = 1
    /\ ParseCodewords(CodebookEntries(res.tree, <<>>), ViewBits(buf),
                      PayloadParse.next, <<>>).ret # <<>>

(***************************************************************************)
(* C4  Exactly-one-EOM validation: decode fails with                       *)
(* FailedToDecodeHuffmanTree for every header whose leaf groups do not     *)
(* hold exactly one group flagged EOM, and every tree deserialize returns  *)
(* has exactly one EndOfMessage leaf.                                      *)
(***************************************************************************)
ExactlyOneEom ==
    (Decoded /\ Len(buf) > 0) =>
        LET bits == ViewBits(buf)
            k == StructEnd(bits)
            n == Ones(bits, k)
        IN  /\ res.kind = "Ok" => EomLeaves(res.tree) = 1
            /\ (k > 0 /\ 9 * n <= Len(bits) - k
                 /\ Cardinality(FlaggedGroups(bits, k, n)) # 1)
               => res.kind = "FailedToDecodeHuffmanTree"

(***************************************************************************)
(* C5  Header error conditions: for every non-empty buffer decode returns  *)
(* Err(FailedToDecodeHuffmanTree) exactly when the structural prefix runs  *)
(* out of bits, fewer than 9 x leaf_count bits follow it, no group is      *)
(* flagged EOM, or the root is a bare leaf; otherwise Ok.  The 13 bytes    *)
(* of "Hello, world!" are rejected so.                                     *)
(***************************************************************************)
HeaderErrorConditions ==
    (Decoded /\ Len(buf) > 0) =>
        /\ res.kind = "FailedToDecodeHuffmanTree" <=> HeaderInvalid(ViewBits(buf))
        /\ res.kind # "FailedToDecodeHuffmanTree" => res.kind = "Ok"
        /\ buf = HelloWorld => res.kind = "FailedToDecodeHuffmanTree"

\* A complete structure of two or more leaves with all its groups, none
\* flagged EOM, rejected.
HeaderErrorWitness ==
    /\ Decoded
    /\ Len(buf) > 0
    /\ LET bits == ViewBits(buf)
           k == StructEnd(bits)
           n == Ones(bits, k)
       IN  /\ k > 1
           /\ 9 * n <= Len(bits) - k
           /\ FlaggedGroups(bits, k, n) = {}
    /\ res.kind = "FailedToDecodeHuffmanTree"

(***************************************************************************)
(* C6  Truncated-payload leniency: with a valid header, when the bits run  *)
(* out before an EOM codeword, decode returns Ok with exactly the symbols  *)
(* of the complete codewords read, in order; a trailing incomplete         *)
(* codeword gives no byte.                                                 *)
(***************************************************************************)
TruncatedPayloadLeniency ==
    (Decoded /\ Len(buf) > 0 /\ ~HeaderInvalid(ViewBits(buf))) =>
        /\ res.kind = "Ok"
        /\ res.hdr = StructEnd(ViewBits(buf))
                       + 9 * Ones(ViewBits(buf), StructEnd(ViewBits(buf)))
        /\ PayloadParse.stop = "exhausted" => res.val = PayloadParse.ret

\* Symbols decoded, no EOM, and the bits of an incomplete codeword left.
TruncatedPayloadWitness ==
    /\ Decoded
    /\ res.kind = "Ok"
    /\ PayloadParse.stop = "exhausted"
    /\ PayloadParse.next <= Len(ViewBits(buf))
    /\ Len(res.val) >= 1
    /\ res.val = PayloadParse.ret

(***************************************************************************)
(* C7  Empty input: encode and decode of an empty buffer both return       *)
(* Err(NoData) and build or parse no tree; no non-empty buffer gives       *)
(* NoData.                                                                 *)
(***************************************************************************)
EmptyInput ==
    /\ Encoded =>
          /\ out.kind = "NoData" <=> Len(bytes) = 0
          /\ out.kind = "NoData" => out.tree = NoTree
    /\ Decoded =>
          /\ res.kind = "NoData" <=> Len(buf) = 0
          /\ res.kind = "NoData" => res.tree = NoTree

\* Both calls made with the empty buffer.
EmptyInputWitness ==
    /\ Decoded
    /\ Len(bytes) = 0
    /\ Len(buf) = 0
    /\ out.kind = "NoData"
    /\ res.kind = "NoData"

(***************************************************************************)
(* C8  Header wire format: for a non-empty input of d distinct byte        *)
(* values the output starts with 2L-1 structural bits (L = d + 1, one per  *)
(* node in preorder, 1 = leaf), then L 9-bit groups in preorder leaf       *)
(* order: one with flag 1 and eight zero bits, d with flag 0 and the       *)
(* distinct byte values least significant bit first; the payload starts    *)
(* at bit 11L, and the bits past the message are zero.                     *)
(***************************************************************************)
HeaderWireFormat ==
    (EncodeReturned /\ out.kind = "Ok") =>
        LET bits == ViewBits(out.val)
            n == Cardinality(Range(bytes)) + 1
            k == 2 * n - 1
            pay == ParseCodewords(CodebookEntries(out.tree, <<>>), bits, 11 * n, <<>>)
        IN  /\ Len(bits) >= 11 * n - 1
            /\ StructEnd(bits) = k
            /\ Ones(bits, k) = n
            /\ SubSeq(bits, 1, k) = StructBits(out.tree)
            /\ Cardinality(FlaggedGroups(bits, k, n)) = 1
            /\ \A i \in FlaggedGroups(bits, k, n) : GroupByte(bits, k, i) = 0
            /\ {GroupByte(bits, k, i) : i \in (1..n) \ FlaggedGroups(bits, k, n)}
                  = Range(bytes)
            /\ \A i \in 1..n :
                  LeafValues(out.tree)[i] =
                      IF GroupFlag(bits, k, i) = 1 THEN EndOfMessage
                      ELSE Symbol(GroupByte(bits, k, i))
            /\ pay.stop = "eom"
            /\ pay.ret = bytes
            /\ pay.next - 1 = out.nbits
            /\ Len(bits) = 8 * ((out.nbits + 7) \div 8)
            /\ \A i \in (out.nbits + 1)..Len(bits) : bits[i] = 0

\* Three distinct byte values: a header of four leaves, 43 bits.
HeaderWireFormatWitness ==
    /\ Encoded
    /\ out.kind = "Ok"
    /\ Cardinality(Range(bytes)) = 3
    /\ StructEnd(ViewBits(out.val)) = 7
    /\ out.nbits > 43

(***************************************************************************)
(* C9  Bounded tree size: every tree the codec handles, built by           *)
(* tree_for_message or rebuilt by deserialize, has at most 257 leaves.     *)
(***************************************************************************)
BoundedTreeSize ==
    /\ (Encoded /\ out.kind = "Ok") => LeafCount(out.tree) <= MaxLeaves
    /\ (Decoded /\ res.kind = "Ok") => res.leaves <= MaxLeaves

(***************************************************************************)
(* C10  Tie-break independence of length: whatever order the frequency     *)
(* table yields its keys in, the total codeword length of the message      *)
(* (with EOM) and the length of the output are those of the ascending      *)
(* order; so they are the same for any two orders.                         *)
(***************************************************************************)
TieBreakIndependence ==
    (EncodeReturned /\ out.kind = "Ok") =>
        LET ref == Encode(bytes, AscendingOrder(Range(bytes)))
        IN  /\ TotalCodeLength(out.tree, bytes) = TotalCodeLength(ref.tree, bytes)
            /\ out.nbits = ref.nbits
            /\ Len(out.val) = Len(ref.val)

\* An order that gives other output bits than the ascending one.
TieBreakWitness ==
    /\ Encoded
    /\ out.kind = "Ok"
    /\ out.order # AscendingOrder(Range(bytes))
    /\ out.val # Encode(bytes, AscendingOrder(Range(bytes))).val
    /\ Len(out.val) = Len(Encode(bytes, AscendingOrder(Range(bytes))).val)

====
